---- MODULE Spec2Model ----
(***************************************************************************)
(* A model of Grok_UI_Util.py: the sliding-window RateLimiter, the bounded *)
(* ConversationManager, query_grok with validate_api_response, and the     *)
(* Streamlit script body that wires them together.  Times are whole        *)
(* seconds.                                                                *)
(***************************************************************************)
EXTENDS Integers, Sequences, FiniteSets, TLC

(* ------------------------------------------------------------------ *)
(* Bounds of the model                                                 *)
(* ------------------------------------------------------------------ *)

\* RateLimiter(minute_limit, hour_limit): the two constructor arguments,
\* checked at small values (the defaults are 10 and 100).
minute_limit == 2
hour_limit == 3

\* ConversationManager(max_history): checked at a small value (default 50).
max_history == 2

\* How many times the clock may move in one behaviour.
MaxTicks == 3

\* How many entries may be added to the history between two clear_history.
MaxAppends == 4

\* How many POSTs the application may issue in one behaviour.
MaxCalls == 2

\* The seconds by which the clock moves between two operations.
Deltas == {59, 60, 3600}

\* The seconds by which the clock may move between two reads of time()
\* inside one operation.
Drift == {0, 1}

(* ------------------------------------------------------------------ *)
(* Constants of the program                                            *)
(* ------------------------------------------------------------------ *)

MAX_INPUT_LENGTH == 4000
MIN_INPUT_LENGTH == 1

MINUTE_KEY == "rate_limiter_minute_requests"
HOUR_KEY == "rate_limiter_hour_requests"
HISTORY_KEY == "conversation_history"

(* ------------------------------------------------------------------ *)
(* State                                                               *)
(* ------------------------------------------------------------------ *)

VARIABLES
    clock,                  \* what time() and datetime.now() return now
    ticks,                  \* how often the clock has moved
    session_keys,           \* the keys present in st.session_state
    minute_requests,        \* st.session_state['rate_limiter_minute_requests']
    hour_requests,          \* st.session_state['rate_limiter_hour_requests']
    conversation_history,   \* st.session_state.conversation_history
    op,                     \* the operation that ran last
    args,                   \* the inputs of that operation
    current_time,           \* can_make_request's local current_time (0 when
                            \* the last operation was another one)
    purge_time,             \* the clock the last operation read in its
                            \* minute purge (0 when it did not purge)
    result,                 \* what the last operation returned
    shown,                  \* what the last operation put on the page
    http_calls,             \* number of requests.post calls issued so far
    admitted,               \* every timestamp can_make_request has admitted
    appended                \* every entry added since the last clear_history

vars == <<clock, ticks, session_keys, minute_requests, hour_requests,
          conversation_history, op, args, current_time, purge_time, result,
          shown, http_calls, admitted, appended>>

NoResult == [kind |-> "none"]

(* ------------------------------------------------------------------ *)
(* Python values                                                       *)
(* ------------------------------------------------------------------ *)

Min(a, b) == IF a < b THEN a ELSE b
Max(a, b) == IF a > b THEN a ELSE b

\* A deque that holds one item less than its maxlen.
deque_append_tight(queue, x, maxlen) ==
    IF maxlen = 0 THEN queue
    ELSE IF Len(queue) >= maxlen - 1 THEN Append(Tail(queue), x)
    ELSE Append(queue, x)

\* deque(maxlen=n).append(x): once the deque is full the item at the left
\* end is discarded.
deque_append(queue, x, maxlen) ==
    IF maxlen = 0 THEN queue
    ELSE IF Len(queue) >= maxlen THEN Append(Tail(queue), x)
    ELSE Append(queue, x)

\* list[-n:]
py_last(list, n) ==
    IF n = 0 THEN list
    ELSE SubSeq(list, Max(1, Len(list) - n + 1), Len(list))

\* list[:n]
py_first(list, n) == SubSeq(list, 1, Min(n, Len(list)))

\* list(reversed(list))
py_reversed(list) == [i \in 1..Len(list) |-> list[Len(list) - i + 1]]

\* The characters str.strip() removes.
Whitespace == {" ", "\t", "\n", "\r"}

\* str.strip() leaves the empty string.
py_blank(s) == \A i \in 1..Len(s) : SubSeq(s, i, i) \in Whitespace

\* str.lower() of one character, for the letters the model uses.
lower_char(c) ==
    CASE c = "A" -> "a"
      [] c = "B" -> "b"
      [] c = "H" -> "h"
      [] c = "Z" -> "z"
      [] OTHER -> c

\* str.lower()
RECURSIVE py_lower(_)
py_lower(s) ==
    IF Len(s) = 0 THEN ""
    ELSE IF Len(s) = 1 THEN lower_char(s)
    ELSE LET half == Len(s) \div 2
         IN  py_lower(SubSeq(s, 1, half))
                 \o py_lower(SubSeq(s, half + 1, Len(s)))

\* needle in haystack
py_in(needle, haystack) ==
    \E i \in 0..(Len(haystack) - Len(needle)) :
        SubSeq(haystack, i + 1, i + Len(needle)) = needle

\* The string made of n copies of s.
RECURSIVE Repeat(_, _)
Repeat(s, n) ==
    IF n = 0 THEN ""
    ELSE IF n % 2 = 0 THEN LET half == Repeat(s, n \div 2) IN half \o half
    ELSE s \o Repeat(s, n - 1)

(* ------------------------------------------------------------------ *)
(* JSON values as response.json() returns them                         *)
(* ------------------------------------------------------------------ *)

JNull == [type |-> "null", val |-> 0]
JBool(b) == [type |-> "bool", val |-> b]
JNum(n) == [type |-> "number", val |-> n]
JStr(s) == [type |-> "string", val |-> s]
JArr(items) == [type |-> "array", val |-> items]
JObj(fields) == [type |-> "object", val |-> fields]
NoFields == [k \in {} |-> JNull]

\* bool(value)
py_truthy(j) ==
    CASE j.type = "null" -> FALSE
      [] j.type = "bool" -> j.val
      [] j.type = "number" -> j.val # 0
      [] j.type = "string" -> j.val # ""
      [] j.type = "array" -> j.val # <<>>
      [] j.type = "object" -> DOMAIN j.val # {}

\* dict.get(key, default)
dict_get(j, key, default) ==
    IF key \in DOMAIN j.val THEN j.val[key] ELSE default

(* ------------------------------------------------------------------ *)
(* RateLimiter                                                         *)
(* ------------------------------------------------------------------ *)

\* _initialize_queues: a queue is created only when its key is missing.
initialize_queue(keys, key, queue) ==
    IF key \notin keys THEN <<>> ELSE queue

\* _clean_old_requests that never removes anything.
clean_old_requests_never(queue, window_seconds, now) == queue

\* _clean_old_requests with "if" in place of "while": one entry at most is
\* removed.
clean_old_requests_once(queue, window_seconds, now) ==
    IF queue # <<>> /\ queue[1] < now - window_seconds
    THEN Tail(queue)
    ELSE queue

\* _clean_old_requests with a window twice as long.
clean_old_requests_double(queue, window_seconds, now) ==
    SelectSeq(queue, LAMBDA t : t >= now - 2 * window_seconds)

\* _clean_old_requests, given the value its own time() call returned.
RECURSIVE clean_old_requests(_, _, _)
clean_old_requests(queue, window_seconds, now) ==
    IF queue # <<>> /\ queue[1] < now - window_seconds
    THEN clean_old_requests(Tail(queue), window_seconds, now)
    ELSE queue

\* _format_wait_time
format_wait_time(seconds) ==
    IF seconds < 60 THEN ToString(seconds) \o " seconds"
    ELSE LET minutes == seconds \div 60
         IN  ToString(minutes) \o " minute"
                 \o (IF minutes > 1 THEN "s" ELSE "")

\* can_make_request with the hour limit checked before the minute limit.
admission_hour_first(minute, hour, now) ==
    IF Len(hour) >= hour_limit
    THEN LET wait_time == (hour[1] + 3600) - now
         IN  [kind |-> "admission", allowed |-> FALSE, limit |-> "hour",
              wait_time |-> wait_time,
              message |-> "Hourly limit exceeded. Please wait "
                            \o format_wait_time(wait_time) \o "."]
    ELSE IF Len(minute) >= minute_limit
    THEN LET wait_time == (minute[1] + 60) - now
         IN  [kind |-> "admission", allowed |-> FALSE, limit |-> "minute",
              wait_time |-> wait_time,
              message |-> "Rate limit exceeded. Please wait "
                            \o format_wait_time(wait_time) \o "."]
    ELSE [kind |-> "admission", allowed |-> TRUE, limit |-> "none",
          wait_time |-> 0, message |-> ""]

\* The value can_make_request returns for a request read at time now, once
\* both queues have been cleaned.
admission(minute, hour, now) ==
    IF Len(minute) >= minute_limit
    THEN LET wait_time == (minute[1] + 60) - now
         IN  [kind |-> "admission", allowed |-> FALSE, limit |-> "minute",
              wait_time |-> wait_time,
              message |-> "Rate limit exceeded. Please wait "
                            \o format_wait_time(wait_time) \o "."]
    ELSE IF Len(hour) >= hour_limit
    THEN LET wait_time == (hour[1] + 3600) - now
         IN  [kind |-> "admission", allowed |-> FALSE, limit |-> "hour",
              wait_time |-> wait_time,
              message |-> "Hourly limit exceeded. Please wait "
                            \o format_wait_time(wait_time) \o "."]
    ELSE [kind |-> "admission", allowed |-> TRUE, limit |-> "none",
          wait_time |-> 0, message |-> ""]

\* The minute queue when the timestamp is recorded before the limits are
\* looked at.
minute_after_always(minute, verdict, now) ==
    deque_append(minute, now, minute_limit)

\* The minute queue after can_make_request.
minute_after(minute, verdict, now) ==
    IF verdict.allowed THEN deque_append(minute, now, minute_limit) ELSE minute

\* The hour queue when can_make_request forgets to record the timestamp in it.
hour_after_forgotten(hour, verdict, now) == hour

\* The hour queue after can_make_request.
hour_after(hour, verdict, now) ==
    IF verdict.allowed THEN deque_append(hour, now, hour_limit) ELSE hour

\* can_make_request that purges the hour queue with the minute's window.
request_step_one_window(minute, hour, now, t1, t2) ==
    LET m == clean_old_requests(minute, 60, t1)
        h == clean_old_requests(hour, 60, t2)
        verdict == admission(m, h, now)
    IN  [minute |-> minute_after(m, verdict, now),
         hour |-> hour_after(h, verdict, now),
         verdict |-> verdict]

\* can_make_request on the queues minute and hour: time() returns now at the
\* start, t1 in the minute purge and t2 in the hour purge.
request_step(minute, hour, now, t1, t2) ==
    LET m == clean_old_requests(minute, 60, t1)
        h == clean_old_requests(hour, 3600, t2)
        verdict == admission(m, h, now)
    IN  [minute |-> minute_after(m, verdict, now),
         hour |-> hour_after(h, verdict, now),
         verdict |-> verdict]

\* get_usage_stats on the queues minute and hour: time() returns t1 in the
\* minute purge and t2 in the hour purge.
stats_step(minute, hour, t1, t2) ==
    LET m == clean_old_requests(minute, 60, t1)
        h == clean_old_requests(hour, 3600, t2)
    IN  [minute |-> m,
         hour |-> h,
         stats |-> [kind |-> "stats",
                    requests_this_minute |-> Len(m),
                    requests_this_hour |-> Len(h),
                    minute_limit |-> minute_limit,
                    hour_limit |-> hour_limit]]

\* How many of the clock moves d1, d2, d3 are real moves.
Moves(d1, d2, d3) ==
    (IF d1 > 0 THEN 1 ELSE 0) + (IF d2 > 0 THEN 1 ELSE 0)
        + (IF d3 > 0 THEN 1 ELSE 0)

\* can_make_request(): d1 and d2 are the seconds between its reads of time().
can_make_request(d1, d2) ==
    /\ ticks + Moves(d1, d2, 0) <= MaxTicks
    /\ LET step == request_step(minute_requests, hour_requests,
                                clock, clock + d1, clock + d1 + d2)
       IN  /\ minute_requests' = step.minute
           /\ hour_requests' = step.hour
           /\ result' = step.verdict
           /\ admitted' = IF step.verdict.allowed
                          THEN Append(admitted, clock) ELSE admitted
    /\ current_time' = clock
    /\ purge_time' = clock + d1
    /\ clock' = clock + d1 + d2
    /\ ticks' = ticks + Moves(d1, d2, 0)
    /\ op' = "can_make_request"
    /\ args' = NoResult
    /\ shown' = NoResult
    /\ UNCHANGED <<session_keys, conversation_history, http_calls, appended>>

\* get_usage_stats(): d is the seconds between its two reads of time().
get_usage_stats(d) ==
    /\ ticks + Moves(d, 0, 0) <= MaxTicks
    /\ LET step == stats_step(minute_requests, hour_requests,
                              clock, clock + d)
       IN  /\ minute_requests' = step.minute
           /\ hour_requests' = step.hour
           /\ result' = step.stats
    /\ purge_time' = clock
    /\ clock' = clock + d
    /\ ticks' = ticks + Moves(d, 0, 0)
    /\ op' = "get_usage_stats"
    /\ args' = NoResult
    /\ current_time' = 0
    /\ shown' = NoResult
    /\ UNCHANGED <<session_keys, conversation_history, http_calls, admitted,
                   appended>>

\* reset(): calls _initialize_queues again.
reset ==
    /\ minute_requests' = initialize_queue(session_keys, MINUTE_KEY,
                                           minute_requests)
    /\ hour_requests' = initialize_queue(session_keys, HOUR_KEY, hour_requests)
    /\ session_keys' = session_keys \cup {MINUTE_KEY, HOUR_KEY}
    /\ op' = "reset"
    /\ args' = NoResult
    /\ result' = NoResult
    /\ current_time' = 0
    /\ purge_time' = 0
    /\ shown' = NoResult
    /\ UNCHANGED <<clock, ticks, conversation_history, http_calls, admitted,
                   appended>>

\* Time passes between two operations.
Tick(d) ==
    /\ ticks < MaxTicks
    /\ clock' = clock + d
    /\ ticks' = ticks + 1
    /\ op' = "tick"
    /\ args' = NoResult
    /\ result' = NoResult
    /\ current_time' = 0
    /\ purge_time' = 0
    /\ shown' = NoResult
    /\ UNCHANGED <<session_keys, minute_requests, hour_requests,
                   conversation_history, http_calls, admitted, appended>>

\* Timestamps this many seconds old or older are expired in both windows.
Horizon == 3600 + 1

\* A queue that does not age.
aged_never(queue, d) == queue

\* The queue as it stands to the clock once d more seconds have passed, with
\* the clock taken as the origin: every timestamp lies d seconds further
\* back.  The code compares timestamps with the clock only (lines 147, 180
\* and 186), and all timestamps Horizon seconds back or more are removed
\* alike by the next purge.
aged(queue, d) ==
    [i \in DOMAIN queue |-> Max(queue[i] - d, clock - Horizon)]

\* d seconds pass between two operations, told with the clock as origin.
Elapse(d) ==
    /\ minute_requests' = aged(minute_requests, d)
    /\ hour_requests' = aged(hour_requests, d)
    /\ op' = "tick"
    /\ args' = NoResult
    /\ result' = NoResult
    /\ current_time' = 0
    /\ purge_time' = 0
    /\ shown' = NoResult
    /\ UNCHANGED <<clock, ticks, session_keys, conversation_history,
                   http_calls, admitted, appended>>

\* can_make_request() whose reads of time() all return the same value; the
\* log of admitted timestamps is not kept.
can_make_request_unlogged ==
    /\ LET step == request_step(minute_requests, hour_requests,
                                clock, clock, clock)
       IN  /\ minute_requests' = step.minute
           /\ hour_requests' = step.hour
           /\ result' = step.verdict
    /\ current_time' = clock
    /\ purge_time' = clock
    /\ op' = "can_make_request"
    /\ args' = NoResult
    /\ UNCHANGED <<clock, ticks, session_keys, conversation_history, shown,
                   http_calls, admitted, appended>>

(* ------------------------------------------------------------------ *)
(* ConversationManager                                                 *)
(* ------------------------------------------------------------------ *)

\* _initialize_history: the list is created only when its key is missing.
initialize_history(keys, history) ==
    IF HISTORY_KEY \notin keys THEN <<>> ELSE history

\* An entry that leaves the response out.
new_entry_without_response(user_input, response, now) ==
    [timestamp |-> now, user_input |-> user_input, response |-> ""]

\* The entry add_conversation builds at time now.
new_entry(user_input, response, now) ==
    [timestamp |-> now, user_input |-> user_input, response |-> response]

\* add_conversation trimming with history[:max_history], which keeps the
\* oldest entries.
history_after_add_oldest(history, entry) ==
    LET grown == Append(history, entry)
    IN  IF Len(grown) > max_history THEN py_first(grown, max_history)
        ELSE grown

\* The stored history after add_conversation.
history_after_add(history, entry) ==
    LET grown == Append(history, entry)
    IN  IF Len(grown) > max_history THEN py_last(grown, max_history)
        ELSE grown

\* get_history without the reversal.
history_newest_first_same(history) == history

\* The list get_history returns.
history_newest_first(history) == py_reversed(history)

\* A filter that compares the texts as they are written.
history_filter_case_sensitive(view, search_term) ==
    SelectSeq(view, LAMBDA entry :
        \/ py_in(search_term, entry.user_input)
        \/ py_in(search_term, entry.response))

\* The list comprehension of display_history that keeps the matching entries.
history_filter(view, search_term) ==
    SelectSeq(view, LAMBDA entry :
        \/ py_in(py_lower(search_term), py_lower(entry.user_input))
        \/ py_in(py_lower(search_term), py_lower(entry.response)))

\* What display_history puts on the page.
history_page(history, search_term, show_all, default_expanded) ==
    IF history = <<>>
    THEN [kind |-> "info", total |-> 0, entries |-> <<>>,
          load_more |-> FALSE]
    ELSE LET view == history_newest_first(history)
             total_conversations == Len(view)
             found == IF search_term # ""
                      THEN history_filter(view, search_term) ELSE view
         IN  IF search_term # "" /\ found = <<>>
             THEN [kind |-> "warning", total |-> total_conversations,
                   entries |-> <<>>, load_more |-> FALSE]
             ELSE LET display_count == IF show_all THEN Len(found)
                                       ELSE Min(5, Len(found))
                  IN  [kind |-> "history",
                       total |-> total_conversations,
                       entries |->
                           [idx \in 1..Len(py_first(found, display_count)) |->
                               [number |-> total_conversations - idx + 1,
                                expanded |-> idx <= default_expanded,
                                entry |-> found[idx]]],
                       load_more |-> ~show_all /\ display_count < Len(found)]

\* add_conversation(user_input, response)
add_conversation(user_input, response) ==
    /\ Len(appended) < MaxAppends
    /\ LET entry == new_entry(user_input, response, clock)
       IN  /\ conversation_history' =
                  history_after_add(conversation_history, entry)
           /\ appended' = Append(appended, entry)
    /\ op' = "add_conversation"
    /\ args' = [user_input |-> user_input, response |-> response]
    /\ result' = NoResult
    /\ current_time' = 0
    /\ purge_time' = 0
    /\ shown' = NoResult
    /\ UNCHANGED <<clock, ticks, session_keys, minute_requests, hour_requests,
                   http_calls, admitted>>

\* clear_history()
clear_history ==
    /\ conversation_history' = <<>>
    /\ appended' = <<>>
    /\ op' = "clear_history"
    /\ args' = NoResult
    /\ result' = NoResult
    /\ current_time' = 0
    /\ purge_time' = 0
    /\ shown' = NoResult
    /\ UNCHANGED <<clock, ticks, session_keys, minute_requests, hour_requests,
                   http_calls, admitted>>

\* get_history()
get_history ==
    /\ result' = [kind |-> "list",
                  items |-> history_newest_first(conversation_history)]
    /\ op' = "get_history"
    /\ args' = NoResult
    /\ current_time' = 0
    /\ purge_time' = 0
    /\ shown' = NoResult
    /\ UNCHANGED <<clock, ticks, session_keys, minute_requests, hour_requests,
                   conversation_history, http_calls, admitted, appended>>

\* display_history() with the search box holding search_term and the
\* "Show all" box holding show_all.
display_history(search_term, show_all) ==
    /\ shown' = history_page(conversation_history, search_term, show_all, 1)
    /\ op' = "display_history"
    /\ args' = [search_term |-> search_term, show_all |-> show_all]
    /\ result' = NoResult
    /\ current_time' = 0
    /\ purge_time' = 0
    /\ UNCHANGED <<clock, ticks, session_keys, minute_requests, hour_requests,
                   conversation_history, http_calls, admitted, appended>>

(* ------------------------------------------------------------------ *)
(* validate_input, validate_api_response, query_grok                   *)
(* ------------------------------------------------------------------ *)

\* validate_input
validate_input(user_input) ==
    IF user_input = "" \/ py_blank(user_input)
    THEN [ok |-> FALSE, message |-> "Input cannot be empty"]
    ELSE IF Len(user_input) < MIN_INPUT_LENGTH
    THEN [ok |-> FALSE, message |-> "Input must be at least "
             \o ToString(MIN_INPUT_LENGTH) \o " character long"]
    ELSE IF Len(user_input) > MAX_INPUT_LENGTH
    THEN [ok |-> FALSE, message |-> "Input exceeds maximum length of "
             \o ToString(MAX_INPUT_LENGTH) \o " characters"]
    ELSE [ok |-> TRUE, message |-> ""]

\* handle_error: the message shown to the user; the id is made from the
\* clock.
handle_error(user_friendly_message, now) ==
    user_friendly_message \o " (Error ID: " \o ToString(now) \o ")"

\* choices[0] for a truthy choices value.
first_item(choices) ==
    CASE choices.type = "array" -> [raised |-> "none", value |-> choices.val[1]]
      [] choices.type = "string" ->
             [raised |-> "none", value |-> JStr(SubSeq(choices.val, 1, 1))]
      [] choices.type = "object" -> [raised |-> "KeyError", value |-> JNull]
      [] OTHER -> [raised |-> "TypeError", value |-> JNull]

\* validate_api_response: the content it returns or the exception it raises.
validate_api_response(response_data) ==
    IF response_data.type # "object"
    THEN [raised |-> "AttributeError", detail |-> "", value |-> JNull]
    ELSE
    LET choices == dict_get(response_data, "choices", JArr(<<>>))
    IN  IF ~py_truthy(choices)
        THEN [raised |-> "APIError",
              detail |-> "Invalid API response: missing or empty 'choices' array",
              value |-> JNull]
        ELSE
    LET first_choice == first_item(choices)
    IN  IF first_choice.raised # "none"
        THEN [raised |-> first_choice.raised, detail |-> "", value |-> JNull]
        ELSE IF first_choice.value.type # "object"
        THEN [raised |-> "APIError",
              detail |-> "Invalid API response: first choice is not an object",
              value |-> JNull]
        ELSE
    LET message == dict_get(first_choice.value, "message", JObj(NoFields))
    IN  IF message.type # "object"
        THEN [raised |-> "APIError",
              detail |-> "Invalid API response: message is not an object",
              value |-> JNull]
        ELSE
    LET content == dict_get(message, "content", JNull)
    IN  IF content.type = "null"
        THEN [raised |-> "APIError",
              detail |-> "Invalid API response: missing 'content' in message",
              value |-> JNull]
        ELSE [raised |-> "none", detail |-> "", value |-> content]

\* The exception raised inside the try block of query_grok, "none" when it
\* runs to its return statement.
query_raised(upstream) ==
    IF upstream.kind = "exception" THEN "RequestException"
    ELSE IF upstream.status_code # 200 THEN "APIError"
    ELSE IF ~upstream.parses THEN "APIError"
    ELSE LET checked == validate_api_response(upstream.json)
         IN  IF checked.raised # "none" THEN checked.raised
             ELSE IF checked.value.type \in {"number", "bool"}
             THEN "TypeError"
             ELSE "none"

\* query_grok: what it returns when the upstream behaves as given and the
\* call ends at time now.
query_grok(user_input, upstream, now) ==
    LET raised == query_raised(upstream)
    IN  CASE raised = "none" -> validate_api_response(upstream.json).value.val
          [] raised = "RequestException" ->
                 handle_error("Failed to connect to Grok API", now)
          [] raised = "JSONDecodeError" ->
                 handle_error("Failed to parse API response", now)
          [] raised = "APIError" -> handle_error("API request failed", now)
          [] OTHER -> handle_error("An unexpected error occurred", now)

\* validate_api_response(response_data), called on its own.
validate_response(response_data) ==
    /\ LET checked == validate_api_response(response_data)
       IN  result' = [kind |-> "validated", raised |-> checked.raised,
                      detail |-> checked.detail, value |-> checked.value]
    /\ op' = "validate_api_response"
    /\ args' = response_data
    /\ shown' = NoResult
    /\ UNCHANGED <<clock, ticks, session_keys, minute_requests, hour_requests,
                   conversation_history, current_time, purge_time, http_calls,
                   admitted, appended>>

\* query_grok(user_input), called on its own while the API answers as
\* upstream says.
query(user_input, upstream) ==
    /\ http_calls < MaxCalls
    /\ http_calls' = http_calls + 1
    /\ result' = [kind |-> "text",
                  text |-> query_grok(user_input, upstream, clock)]
    /\ op' = "query_grok"
    /\ args' = upstream
    /\ shown' = NoResult
    /\ UNCHANGED <<clock, ticks, session_keys, minute_requests, hour_requests,
                   conversation_history, current_time, purge_time, admitted,
                   appended>>

(* ------------------------------------------------------------------ *)
(* The script body, run once per user interaction                      *)
(* ------------------------------------------------------------------ *)

\* One run of the script from "rate_limiter = RateLimiter()" to its end.
\* submit_button and clear_button tell which button was clicked, widgets
\* holds the values of the query box, the search box and the "Show all" box,
\* upstream is how the API answers; drift[1] and drift[2] are the seconds
\* between the clock reads of can_make_request and drift[3] the seconds the
\* HTTP call takes.
script_run(submit_button, clear_button, widgets, upstream, drift) ==
    LET user_input  == widgets.user_input
        search_term == widgets.search_term
        show_all    == widgets.show_all
        d1          == drift[1]
        d2          == drift[2]
        d3          == drift[3]
        minute0   == initialize_queue(session_keys, MINUTE_KEY,
                                      minute_requests)
        hour0     == initialize_queue(session_keys, HOUR_KEY, hour_requests)
        history0  == initialize_history(session_keys, conversation_history)
        submitted == submit_button /\ user_input # ""
        t2        == IF submitted THEN clock + d1 + d2 ELSE clock
        request   == IF submitted
                     THEN request_step(minute0, hour0, clock, clock + d1, t2)
                     ELSE [minute |-> minute0, hour |-> hour0,
                           verdict |-> NoResult]
        processed == submitted /\ request.verdict.allowed
        t3        == IF processed THEN t2 + d3 ELSE t2
        response  == IF processed THEN query_grok(user_input, upstream, t3)
                     ELSE ""
        entry     == new_entry(user_input, response, t3)
        history1  == IF processed THEN history_after_add(history0, entry)
                     ELSE history0
        page1     == history_page(history1, search_term, show_all, 1)
        usage     == stats_step(request.minute, request.hour, t3, t3)
        history2  == IF clear_button THEN <<>> ELSE history1
        page2     == IF clear_button
                     THEN history_page(history2, search_term, show_all, 1)
                     ELSE page1
        moved     == IF processed THEN Moves(d1, d2, d3)
                     ELSE IF submitted THEN Moves(d1, d2, 0) ELSE 0
    IN  /\ ticks + moved <= MaxTicks
        /\ processed => http_calls < MaxCalls /\ Len(appended) < MaxAppends
        /\ clock' = t3
        /\ ticks' = ticks + moved
        /\ session_keys' = session_keys \cup {MINUTE_KEY, HOUR_KEY, HISTORY_KEY}
        /\ minute_requests' = usage.minute
        /\ hour_requests' = usage.hour
        /\ conversation_history' = history2
        /\ op' = "script_run"
        /\ args' = [submit_button |-> submit_button, user_input |-> user_input,
                    clear_button |-> clear_button]
        /\ current_time' = IF submitted THEN clock ELSE 0
        /\ purge_time' = t3
        /\ result' = request.verdict
        /\ shown' = [kind |-> "page",
                     error |-> IF submitted /\ ~processed
                               THEN request.verdict.message ELSE "",
                     response |-> response,
                     history |-> page2,
                     stats |-> usage.stats]
        /\ http_calls' = IF processed THEN http_calls + 1 ELSE http_calls
        /\ admitted' = IF processed THEN Append(admitted, clock) ELSE admitted
        /\ appended' = IF clear_button THEN <<>>
                       ELSE IF processed THEN Append(appended, entry)
                       ELSE appended

(* ------------------------------------------------------------------ *)
(* Inputs                                                              *)
(* ------------------------------------------------------------------ *)

\* A query one character longer than MAX_INPUT_LENGTH.
LongInput == Repeat("a", MAX_INPUT_LENGTH + 1)

\* What the user may have typed into the query box.
UserInputs == {"", " ", "a", LongInput}

\* What the user may have typed into the search box.
SearchTerms == {"", "a", "AB", "z"}

\* The (user_input, response) pairs stored when the ConversationManager is
\* driven directly.
Exchanges == {<<"a", "hi B">>, <<"Ab", "Za">>}

\* A reply with status 200 whose body is the JSON value json.
Reply(json) ==
    [kind |-> "response", status_code |-> 200, parses |-> TRUE, json |-> json]

\* A completion whose message content is the JSON value content.
Completion(content) ==
    JObj("choices" :> JArr(<<JObj("message" :> JObj("content" :> content))>>))

\* How the API may answer one POST.
Upstreams ==
    {[kind |-> "exception", status_code |-> 0, parses |-> FALSE,
      json |-> JNull],
     [kind |-> "response", status_code |-> 500, parses |-> FALSE,
      json |-> JNull],
     [kind |-> "response", status_code |-> 200, parses |-> FALSE,
      json |-> JNull],
     Reply(Completion(JStr("hi B"))),
     Reply(JObj("choices" :> JArr(<<>>)))}

\* The JSON values tried as the content of a message.
Contents ==
    {JNull, JStr("hi B"), JStr(""), JNum(0), JNum(7), JBool(TRUE),
     JArr(<<>>), JObj(NoFields)}

\* The JSON values tried as the message of a choice.
Messages ==
    {JObj("content" :> c) : c \in Contents}
        \cup {JObj(NoFields), JNull, JStr("m"), JNum(1), JArr(<<>>)}

\* The JSON values tried as the first choice.
FirstChoices ==
    {JObj("message" :> m) : m \in Messages}
        \cup {JObj(NoFields), JNull, JStr("c"), JNum(1), JArr(<<>>)}

\* The JSON values tried as the value of "choices".
ChoicesValues ==
    {JArr(<<c>>) : c \in FirstChoices}
        \cup {JArr(<<>>), JNull, JStr(""), JStr("abc"), JNum(0), JNum(5),
              JBool(FALSE), JBool(TRUE), JObj(NoFields),
              JObj("a" :> JNum(1))}

\* The JSON values tried as the parsed body of a reply.
Payloads ==
    {JObj("choices" :> v) : v \in ChoicesValues}
        \cup {JObj(NoFields), JObj("error" :> JStr("x")), JNull, JArr(<<>>),
              JStr("x"), JNum(1), JBool(TRUE)}

\* How the API may answer when query_grok is called on its own.
ClientUpstreams == Upstreams \cup {Reply(p) : p \in Payloads}

(* ------------------------------------------------------------------ *)
(* Initial state: RateLimiter() and ConversationManager() have run in  *)
(* a fresh session.                                                    *)
(* ------------------------------------------------------------------ *)

Init ==
    /\ clock = 0
    /\ ticks = 0
    /\ session_keys = {MINUTE_KEY, HOUR_KEY, HISTORY_KEY}
    /\ minute_requests = initialize_queue({}, MINUTE_KEY, <<>>)
    /\ hour_requests = initialize_queue({}, HOUR_KEY, <<>>)
    /\ conversation_history = initialize_history({}, <<>>)
    /\ op = "init"
    /\ args = NoResult
    /\ current_time = 0
    /\ purge_time = 0
    /\ result = NoResult
    /\ shown = NoResult
    /\ http_calls = 0
    /\ admitted = <<>>
    /\ appended = <<>>

(* ------------------------------------------------------------------ *)
(* The application: one script run per click                           *)
(* ------------------------------------------------------------------ *)

\* The widget values of one script run.
Widgets(user_input, search_term, show_all) ==
    [user_input |-> user_input, search_term |-> search_term,
     show_all |-> show_all]

\* The answers the application is run against.
AppUpstreams ==
    {u \in Upstreams : u.kind = "exception" \/ py_truthy(u.json)}

\* The submissions the application is run against: every query with an
\* answering API, and the one-letter query with a failing one too.
Submissions ==
    {s \in UserInputs \X AppUpstreams :
        s[2].kind = "exception" => s[1] = "a"}

\* The user clicks "Submit Query".  (The clock stands still during the run;
\* SpecLimiter lets it move between the reads.)
SubmitClick ==
    \E s \in Submissions :
        script_run(TRUE, FALSE, Widgets(s[1], "", FALSE), s[2], <<0, 0, 0>>)

\* The user clicks "Clear Conversation History".
ClearClick ==
    script_run(FALSE, TRUE, Widgets("", "", FALSE),
               CHOOSE u \in AppUpstreams : TRUE, <<0, 0, 0>>)

\* The user ticks or unticks the "Show all" box.
WidgetChange ==
    \E show_all \in BOOLEAN :
        script_run(FALSE, FALSE, Widgets("", "", show_all),
                   CHOOSE u \in AppUpstreams : TRUE, <<0, 0, 0>>)

\* A minute passes between two clicks.
TimePasses == Tick(60)

Next ==
    \/ SubmitClick
    \/ ClearClick
    \/ WidgetChange
    \/ TimePasses

Spec == Init /\ [][Next]_vars

(* ------------------------------------------------------------------ *)
(* The RateLimiter driven method by method                             *)
(* ------------------------------------------------------------------ *)

LimiterRequest == \E d1 \in Drift, d2 \in Drift : can_make_request(d1, d2)
LimiterStats == \E d \in Drift : get_usage_stats(d)
LimiterReset == reset
LimiterTick == \E d \in Deltas : Tick(d)

NextLimiter ==
    \/ LimiterRequest
    \/ LimiterStats
    \/ LimiterReset
    \/ LimiterTick

SpecLimiter == Init /\ [][NextLimiter]_vars

(* ------------------------------------------------------------------ *)
(* The ConversationManager driven method by method                     *)
(* ------------------------------------------------------------------ *)

HistoryAdd ==
    \E exchange \in Exchanges : add_conversation(exchange[1], exchange[2])
HistoryClear == clear_history
HistoryGet == get_history
HistoryDisplay ==
    \E search_term \in SearchTerms, show_all \in BOOLEAN :
        display_history(search_term, show_all)
HistoryTick == Tick(1)

NextHistory ==
    \/ HistoryAdd
    \/ HistoryClear
    \/ HistoryGet
    \/ HistoryDisplay
    \/ HistoryTick

SpecHistory == Init /\ [][NextHistory]_vars

(* ------------------------------------------------------------------ *)
(* validate_api_response and query_grok called on their own            *)
(* ------------------------------------------------------------------ *)

ClientValidate == \E payload \in Payloads : validate_response(payload)
ClientQuery == \E upstream \in ClientUpstreams : query("a", upstream)
ClientTick == Tick(1)

NextClient ==
    \/ ClientValidate
    \/ ClientQuery
    \/ ClientTick

SpecClient == Init /\ [][NextClient]_vars

(* ------------------------------------------------------------------ *)
(* The RateLimiter while time keeps passing and requests keep coming   *)
(* ------------------------------------------------------------------ *)

\* The seconds that pass between two operations.
LiveDeltas == {300, 3600}

LiveRequest == can_make_request_unlogged
LiveElapse == \E d \in LiveDeltas : Elapse(d)

NextLive ==
    \/ LiveRequest
    \/ LiveElapse

\* Time keeps passing and the user keeps submitting requests.
SpecLive ==
    /\ Init
    /\ [][NextLive]_vars
    /\ WF_vars(LiveElapse)
    /\ WF_vars(LiveRequest)

(* ------------------------------------------------------------------ *)
(* Helpers for the properties                                          *)
(* ------------------------------------------------------------------ *)

\* new is old with some items removed from the front and nothing added.
IsSuffix(new, old) ==
    /\ Len(new) <= Len(old)
    /\ new = SubSeq(old, Len(old) - Len(new) + 1, Len(old))

\* The items of old that are missing at the front of new.
Dropped(new, old) == SubSeq(old, 1, Len(old) - Len(new))

\* new is old with some items removed from the front and x put at the end.
IsSuffixPlus(new, old, x) ==
    /\ new # <<>>
    /\ new[Len(new)] = x
    /\ IsSuffix(SubSeq(new, 1, Len(new) - 1), old)

\* text starts with prefix.
HasPrefix(text, prefix) ==
    /\ Len(text) >= Len(prefix)
    /\ SubSeq(text, 1, Len(prefix)) = prefix

\* How many admitted timestamps lie in [t - window_seconds, t].
AdmittedIn(log, t, window_seconds) ==
    Cardinality({i \in DOMAIN log :
                    t - window_seconds <= log[i] /\ log[i] <= t})

Rejected == op = "can_make_request" /\ ~result.allowed
Admitted == op = "can_make_request" /\ result.allowed

(* ------------------------------------------------------------------ *)
(* Properties of the RateLimiter                                       *)
(* ------------------------------------------------------------------ *)

\* C1: in any trailing 60-second interval [t-60, t] at most minute_limit
\* admitted timestamps lie, and in any trailing 3600-second interval
\* [t-3600, t] at most hour_limit.  (The count over an interval is largest
\* when the interval ends at an admitted timestamp.)
C1_TrailingWindowBound ==
    \A j \in DOMAIN admitted :
        /\ AdmittedIn(admitted, admitted[j], 60) <= minute_limit
        /\ AdmittedIn(admitted, admitted[j], 3600) <= hour_limit

\* C2: a can_make_request call appends its timestamp to both queues when it
\* admits and to neither when it rejects.
C2_AllOrNothing ==
    [][op' = "can_make_request" =>
        \/ /\ result'.allowed
           /\ IsSuffixPlus(minute_requests', minute_requests, current_time')
           /\ IsSuffixPlus(hour_requests', hour_requests, current_time')
           /\ admitted' = Append(admitted, current_time')
        \/ /\ ~result'.allowed
           /\ IsSuffix(minute_requests', minute_requests)
           /\ IsSuffix(hour_requests', hour_requests)
           /\ admitted' = admitted]_vars

\* A request was admitted while an older timestamp was still in the hour
\* queue only.
C2_Witness ==
    /\ Admitted
    /\ minute_requests = <<current_time>>
    /\ Len(hour_requests) > 1
    /\ hour_requests[Len(hour_requests)] = current_time

\* C3 as stated: a rejected request leaves the lengths of both queues as
\* they were before the call.
C3_RejectedKeepsSizes ==
    [][(op' = "can_make_request" /\ ~result'.allowed) =>
        /\ Len(minute_requests') = Len(minute_requests)
        /\ Len(hour_requests') = Len(hour_requests)]_vars

\* C3 amended: a rejected request appends nothing; each queue keeps its
\* items in order and loses only expired ones from its front, and the queue
\* whose limit caused the rejection keeps its length.
C3_RejectedAppendsNothing ==
    [][(op' = "can_make_request" /\ ~result'.allowed) =>
        /\ IsSuffix(minute_requests', minute_requests)
        /\ IsSuffix(hour_requests', hour_requests)
        /\ \A i \in DOMAIN Dropped(minute_requests', minute_requests) :
               minute_requests[i] < purge_time' - 60
        /\ \A i \in DOMAIN Dropped(hour_requests', hour_requests) :
               hour_requests[i] < clock' - 3600
        /\ result'.limit = "minute" =>
               Len(minute_requests') = Len(minute_requests)
        /\ result'.limit = "hour" =>
               Len(hour_requests') = Len(hour_requests)]_vars

\* A request was rejected by the minute limit right after the hour queue
\* lost an expired timestamp.
C3_Witness ==
    /\ Rejected
    /\ result.limit = "minute"
    /\ Len(hour_requests) = minute_limit
    /\ Len(admitted) > minute_limit

\* C4: the wait time of every rejection is >= 0.
C4_WaitNonNegative ==
    Rejected => result.wait_time >= 0

\* A request was rejected after the purge read a later clock than the
\* request's own timestamp.
C4_Witness ==
    /\ Rejected
    /\ purge_time > current_time
    /\ result.wait_time >= 0

C6_ResetClears ==
    op = "reset" => minute_requests = <<>> /\ hour_requests = <<>>

\* C7: get_usage_stats reports the lengths of the purged queues with the two
\* limits, appends nothing, removes only expired timestamps, and a second
\* call at the same clock value would remove nothing more.
C7_StatsOnlyPurges ==
    [][op' = "get_usage_stats" =>
        /\ result' = [kind |-> "stats",
                      requests_this_minute |-> Len(minute_requests'),
                      requests_this_hour |-> Len(hour_requests'),
                      minute_limit |-> minute_limit,
                      hour_limit |-> hour_limit]
        /\ IsSuffix(minute_requests', minute_requests)
        /\ IsSuffix(hour_requests', hour_requests)
        /\ admitted' = admitted
        /\ \A i \in DOMAIN Dropped(minute_requests', minute_requests) :
               minute_requests[i] < purge_time' - 60
        /\ \A i \in DOMAIN Dropped(hour_requests', hour_requests) :
               hour_requests[i] < clock' - 3600
        /\ purge_time' = clock' =>
               /\ clean_old_requests(minute_requests', 60, clock')
                      = minute_requests'
               /\ clean_old_requests(hour_requests', 3600, clock')
                      = hour_requests']_vars

\* get_usage_stats ran and purged the minute queue while the hour queue
\* still holds timestamps.
C7_Witness ==
    /\ op = "get_usage_stats"
    /\ result.requests_this_minute = 0
    /\ result.requests_this_hour = minute_limit
    /\ Len(admitted) > minute_limit

(* ------------------------------------------------------------------ *)
(* Properties of the ConversationManager and of the script             *)
(* ------------------------------------------------------------------ *)

\* The items of a list, as a set.
Items(list) == {list[i] : i \in DOMAIN list}

\* C8: the stored history never holds more than max_history entries, and it
\* is exactly the newest max_history entries added since the last
\* clear_history, in the order they were added.
C8_NewestKept ==
    /\ Len(conversation_history) <= max_history
    /\ LET n == Len(appended)
           k == Len(conversation_history)
       IN  /\ k = IF n > max_history THEN max_history ELSE n
           /\ \A i \in 1..k : conversation_history[i] = appended[n - k + i]

\* One entry more than max_history was added and the first one is gone.
C8_Witness ==
    /\ op = "add_conversation"
    /\ Len(appended) = max_history + 1
    /\ Len(conversation_history) = max_history
    /\ appended[1] \notin Items(conversation_history)

\* C9: a submitted input that fails validate_input causes no HTTP request,
\* no admitted timestamp and no history entry.
C9_InvalidInputStopsLocally ==
    [][(/\ op' = "script_run"
        /\ args'.submit_button
        /\ ~validate_input(args'.user_input).ok) =>
        /\ http_calls' = http_calls
        /\ admitted' = admitted
        /\ appended' = appended
        /\ conversation_history' = conversation_history]_vars

\* C10: get_history returns the stored entries in reverse insertion order;
\* get_history and display_history leave the stored history as it is, which
\* changes only in add_conversation and clear_history.
C10_ReadOnlyRetrieval ==
    [][/\ op' = "get_history" =>
            /\ Len(result'.items) = Len(conversation_history)
            /\ \A i \in DOMAIN result'.items :
                   result'.items[i] =
                       conversation_history[Len(conversation_history) - i + 1]
            /\ conversation_history' = conversation_history
       /\ op' = "display_history" =>
            conversation_history' = conversation_history
       /\ conversation_history' # conversation_history =>
            op' \in {"add_conversation", "clear_history"}]_vars

\* get_history returned a full history of entries that differ.
C10_Witness ==
    /\ op = "get_history"
    /\ Len(result.items) = max_history
    /\ result.items[1] # result.items[Len(result.items)]
    /\ result.items[1] = conversation_history[Len(conversation_history)]

\* The entries a page shows, in the order it shows them.
PageEntries(page) == [i \in DOMAIN page.entries |-> page.entries[i].entry]

\* entry holds term in its user_input or in its response, letter case aside.
Holds(entry, term) ==
    \/ py_in(py_lower(term), py_lower(entry.user_input))
    \/ py_in(py_lower(term), py_lower(entry.response))

\* C11: display_history shows, newest first, exactly the stored entries whose
\* user_input or response holds the search term as a case-insensitive
\* substring; the empty term keeps every entry and a term that no entry
\* holds leaves no entry (the page then shows a warning).  (At most 5 entries
\* are shown unless "Show all" is ticked.)
C11_FilterSemantics ==
    [][op' = "display_history" =>
        LET term     == args'.search_term
            view     == py_reversed(conversation_history)
            expected == SelectSeq(view, LAMBDA entry : Holds(entry, term))
        IN  /\ args'.show_all \/ Len(expected) <= 5 =>
                   PageEntries(shown') = expected
            /\ term = "" => PageEntries(shown') = view
            /\ (term # "" /\ view # <<>> /\ expected = <<>>) =>
                   shown'.kind = "warning"]_vars

\* A search in other letter case found one of two stored entries, by its
\* user_input.
C11_Witness ==
    /\ op = "display_history"
    /\ args.search_term = "AB"
    /\ Len(conversation_history) = 2
    /\ Len(shown.entries) = 1
    /\ shown.entries[1].entry.user_input = "Ab"

(* ------------------------------------------------------------------ *)
(* Properties of validate_api_response and query_grok                  *)
(* ------------------------------------------------------------------ *)

\* The value under key of the JSON value j, JNull when j is not an object
\* or has no such key.
Member(j, key) ==
    IF j.type = "object" /\ key \in DOMAIN j.val THEN j.val[key] ELSE JNull

\* The first item of the "choices" array of payload, JNull when there is no
\* such array or it is empty.
FirstChoice(payload) ==
    LET choices == Member(payload, "choices")
    IN  IF choices.type = "array" /\ choices.val # <<>> THEN choices.val[1]
        ELSE JNull

\* The APIError with the given detail.
Refusal(detail) ==
    [kind |-> "validated", raised |-> "APIError", detail |-> detail,
     value |-> JNull]

\* C12: validate_api_response stops at the first of four checks that fails:
\* "choices" absent, empty or not an array; choices[0] not an object; its
\* message not an object; content absent or null.  Otherwise it returns the
\* content as it is.  Every failure is one of these four APIErrors.  (A
\* choice without "message" may fail the third or the fourth check.)
C12_FourChecks ==
    op = "validate_api_response" =>
        LET choices == Member(args, "choices")
            first   == FirstChoice(args)
            message == Member(first, "message")
            content == Member(message, "content")
        IN  IF choices.type # "array" \/ choices.val = <<>>
            THEN result = Refusal(
                     "Invalid API response: missing or empty 'choices' array")
            ELSE IF first.type # "object"
            THEN result = Refusal(
                     "Invalid API response: first choice is not an object")
            ELSE IF "message" \notin DOMAIN first.val
            THEN result \in
                     {Refusal("Invalid API response: message is not an object"),
                      Refusal("Invalid API response: missing 'content' in message")}
            ELSE IF message.type # "object"
            THEN result = Refusal(
                     "Invalid API response: message is not an object")
            ELSE IF content.type = "null"
            THEN result = Refusal(
                     "Invalid API response: missing 'content' in message")
            ELSE result = [kind |-> "validated", raised |-> "none",
                           detail |-> "", value |-> content]

\* query_grok ran against a reply with status 200.
Answered200 ==
    op = "query_grok" /\ args.kind = "response" /\ args.status_code = 200

\* The JSON value j has the shape {choices: [{message: {content: ...}}]}
\* with a content that is not null.
WellShaped(j) ==
    Member(Member(FirstChoice(j), "message"), "content").type # "null"

\* C13: a reply with status 200 whose body is not JSON makes query_grok
\* return the message "Failed to parse API response", not the message
\* "API request failed".
C13_UnparseableBody ==
    (Answered200 /\ ~args.parses) =>
        /\ HasPrefix(result.text, "Failed to parse API response")
        /\ ~HasPrefix(result.text, "API request failed")

\* C14: a reply with status 200 whose body is JSON of another shape than
\* {choices: [{message: {content: ...}}]} makes query_grok return the
\* message "API request failed", whatever the body is.
C14_InvalidShape ==
    (Answered200 /\ args.parses /\ ~WellShaped(args.json)) =>
        HasPrefix(result.text, "API request failed")

(* ------------------------------------------------------------------ *)
(* Properties of the submit handler                                    *)
(* ------------------------------------------------------------------ *)

\* The script ran for a click on "Submit Query" with a query typed in.
Submitted == op = "script_run" /\ args.submit_button /\ args.user_input # ""

\* C15: a submitted query that can_make_request admits issues exactly one
\* POST and then adds exactly one history entry, which holds the query and
\* the text query_grok returned (the content of the reply or the error
\* message); a submitted query that is rejected, and a run without a
\* submitted query, issue no POST and add no entry.
C15_OnePostOneEntry ==
    [][op' = "script_run" =>
        IF Submitted' /\ result'.allowed
        THEN /\ admitted' = Append(admitted, current_time')
             /\ http_calls' = http_calls + 1
             /\ Len(appended') = Len(appended) + 1
             /\ SubSeq(appended', 1, Len(appended)) = appended
             /\ LET entry == appended'[Len(appended')]
                IN  /\ entry.user_input = args'.user_input
                    /\ entry.response = shown'.response
                    /\ entry.timestamp >= current_time'
                    /\ \E upstream \in AppUpstreams :
                           entry.response =
                               query_grok(args'.user_input, upstream, clock')
                    /\ conversation_history' # <<>>
                    /\ conversation_history'[Len(conversation_history')]
                           = entry
        ELSE /\ admitted' = admitted
             /\ http_calls' = http_calls
             /\ args'.clear_button \/ appended' = appended
             /\ conversation_history' \in {conversation_history, <<>>}]_vars

\* A submitted query was rejected after minute_limit admitted ones, one of
\* which met a connection failure: as many POSTs and entries as admitted
\* queries.
C15_Witness ==
    /\ Submitted
    /\ ~result.allowed
    /\ Len(admitted) = minute_limit
    /\ http_calls = minute_limit
    /\ Len(appended) = minute_limit
    /\ \E i \in DOMAIN appended :
           HasPrefix(appended[i].response, "Failed to connect to Grok API")

(* ------------------------------------------------------------------ *)
(* More properties of the RateLimiter                                  *)
(* ------------------------------------------------------------------ *)

\* A can_make_request or get_usage_stats call has just returned.
AfterCall == op \in {"can_make_request", "get_usage_stats"}

\* The clock value at which that call was made (its first time() read).
CallTime == IF op = "can_make_request" THEN current_time ELSE purge_time

\* C16: right after a can_make_request or get_usage_stats call made at time
\* now, every timestamp in the minute queue lies in [now - 60, now] and
\* every timestamp in the hour queue in [now - 3600, now].
C16_WindowsHoldRecent ==
    AfterCall =>
        /\ \A i \in DOMAIN minute_requests :
               /\ CallTime - 60 <= minute_requests[i]
               /\ minute_requests[i] <= CallTime
        /\ \A i \in DOMAIN hour_requests :
               /\ CallTime - 3600 <= hour_requests[i]
               /\ hour_requests[i] <= CallTime

\* A request was admitted by a call that purged every older timestamp from
\* the minute queue and at least one from the hour queue.
C16_Witness ==
    /\ Admitted
    /\ minute_requests = <<current_time>>
    /\ Len(hour_requests) > 1
    /\ Len(admitted) > Len(hour_requests)

\* Between two calls the minute queue holds a timestamp older than 60
\* seconds: nothing is purged while no call is made.
C16_LazyWitness ==
    /\ op = "tick"
    /\ minute_requests # <<>>
    /\ minute_requests[1] < clock - 60

\* The instant a rejection names as the next available one.
NextAvailable == current_time + result.wait_time

\* C17: after a rejection by the minute limit with the hour queue below its
\* limit, and after a rejection by the hour limit, the next request, made
\* at the instant current_time + wait_time with no request in between, is
\* admitted.
C17_WaitSuffices ==
    (/\ Rejected
     /\ NextAvailable >= clock
     /\ result.limit = "minute" => Len(hour_requests) < hour_limit) =>
        \A d1 \in Drift, d2 \in Drift :
            request_step(minute_requests, hour_requests, NextAvailable,
                         NextAvailable + d1, NextAvailable + d1 + d2
                        ).verdict.allowed

\* C18: the minute queue is a suffix of the hour queue and both hold their
\* timestamps oldest first, so get_usage_stats never reports more requests
\* this minute than this hour.
C18_MinuteSuffixOfHour ==
    /\ IsSuffix(minute_requests, hour_requests)
    /\ \A i \in 1..(Len(hour_requests) - 1) :
           hour_requests[i] <= hour_requests[i + 1]
    /\ \A i \in 1..(Len(minute_requests) - 1) :
           minute_requests[i] <= minute_requests[i + 1]
    /\ op = "get_usage_stats" =>
           result.requests_this_minute <= result.requests_this_hour

\* get_usage_stats found some but not all timestamps of the hour queue in
\* the minute queue.
C18_Witness ==
    /\ op = "get_usage_stats"
    /\ result.requests_this_minute > 0
    /\ result.requests_this_minute < result.requests_this_hour
    /\ minute_requests[1] # hour_requests[1]

\* C19: while time keeps passing and requests keep being made, every
\* rejection is followed by an admitted request; and a request made more
\* than 3600 seconds after the last admitted one (or before any) is
\* admitted.
C19_NoPermanentLockout ==
    /\ Rejected ~> Admitted
    /\ [][(/\ op' = "can_make_request"
            /\ \A i \in DOMAIN hour_requests :
                   hour_requests[i] < current_time' - 3600) =>
               result'.allowed]_vars

\* A request was rejected by the hour limit at the very instant the oldest
\* timestamp of the hour queue is 3600 seconds old.
C19_Witness ==
    /\ Rejected
    /\ result.limit = "hour"
    /\ result.wait_time = 0

\* The admitted timestamps that are at most window_seconds old, oldest
\* first.
StillRecent(window_seconds) ==
    SelectSeq(admitted, LAMBDA t : t >= clock - window_seconds)

\* C20: a timestamp is appended to a queue only when the purged queue holds
\* fewer entries than its limit, so the deque never discards one: every
\* admitted timestamp that has not expired is still in its queue, in order
\* of admission, and no queue holds more entries than its limit.
C20_NeverDropsSilently ==
    [][/\ (op' = "can_make_request" /\ result'.allowed) =>
            /\ Len(clean_old_requests(minute_requests, 60, purge_time'))
                   < minute_limit
            /\ Len(clean_old_requests(hour_requests, 3600, clock'))
                   < hour_limit
       /\ IsSuffix(StillRecent(60)', minute_requests')
       /\ IsSuffix(StillRecent(3600)', hour_requests')
       /\ Len(minute_requests') <= minute_limit
       /\ Len(hour_requests') <= hour_limit]_vars

\* A request was rejected by the hour limit: the hour queue is full and
\* holds the hour_limit newest admitted timestamps, while the minute queue
\* has room.
C20_Witness ==
    /\ Rejected
    /\ result.limit = "hour"
    /\ Len(minute_requests) < minute_limit
    /\ Len(hour_requests) = hour_limit
    /\ hour_requests = StillRecent(3600)

====
